---- MODULE Spec2Model ----
(***************************************************************************)
(* A model of inference.py (FuXi): the autoregressive forecast loop        *)
(* run_inference, the labeler save_like and the encoder time_encoding.     *)
(*                                                                         *)
(* Tensors are symbolic.  A tensor is a record                             *)
(*     [slices |-> <sequence of slices along axis 1>, grid |-> <<c,h,w>>]  *)
(* (axis 0, the batch axis, always has length 1).  A slice is a symbol     *)
(* <<producer, call, index>>: a slice of the input window, of the output   *)
(* of the k-th call of the "short" session or of the k-th call of the      *)
(* "interp" session.  Distinct symbols stand for values that may differ,   *)
(* so every statement about which data flows where is decided by the       *)
(* code's assignments alone.                                               *)
(*                                                                         *)
(* Times of run_inference are whole hours since 2024-01-01T00:00; times    *)
(* of time_encoding are minutes since the same instant.                    *)
(***************************************************************************)
EXTENDS Integers, Sequences, FiniteSets, TLC

\* ---------------------------------------------------------------- bounds
MaxSteps == 2       \* --total_step ranges over 0..MaxSteps
MaxHist  == 2       \* a session returns 0..MaxHist slices along axis 1

\* ------------------------------------------------------ program constants
BaseInterval == 6   \* hours per step
Doy366 == 366       \* divisor of day_of_year in time_encoding
Hours24 == 24       \* divisor of hour
Doy365 == 365       \* clip and divisor of day_of_year in run_inference

VARIABLES
    \* the run's configuration and input (never assigned by run_inference)
    input,          \* the input window: [time, lat, lon, channel]
    models,         \* the dict of loaded sessions, keyed "short" / "interp"
    total_step,     \* args.total_step
    use_interp,     \* args.use_interp
    save_dir,       \* TRUE iff args.save_dir is a non-empty string
    \* run_inference
    pc,             \* "start", "loop", "done", "failed" ("idle": not run)
    err,            \* the exception that ended the run, or "none"
    step,           \* the loop variable
    batch,          \* the rolling window
    \* history of the run's calls and effects
    predIn,         \* the inputs of each call of models["short"].run
    predOut,        \* what each such call returned
    refIn,          \* the inputs of each call of models["interp"].run
    refOut,         \* what each such call returned
    saveCalls,      \* the arguments of each call of save_like
    records,        \* the records written by save_with_progress, in order
    \* time_encoding
    te_pc,          \* "loop", "returned", "failed" ("idle": not run)
    te_init,        \* init_time, in minutes
    te_total,       \* total_step
    te_freq,        \* freq
    te_i,           \* the loop variable i
    tembs           \* the list tembs

vars == <<input, models, total_step, use_interp, save_dir, pc, err, step,
          batch, predIn, predOut, refIn, refOut, saveCalls, records,
          te_pc, te_init, te_total, te_freq, te_i, tembs>>

runVars == <<input, models, total_step, use_interp, save_dir, pc, err, step,
             batch, predIn, predOut, refIn, refOut, saveCalls, records>>

teVars == <<te_pc, te_init, te_total, te_freq, te_i, tembs>>

\* ---------------------------------------------------------------- helpers
Last(s) == s[Len(s)]

Min(a, b) == IF a < b THEN a ELSE b

\* ---------------------------------------------------------------- calendar
\* 2023 and 2025 have 365 days, 2024 has 366; hour 0 is 2024-01-01T00:00.
DayOfYear(h) ==
    LET d == h \div 24
    IN  IF d < 0 THEN 365 + d + 1
        ELSE IF d < 366 THEN d + 1
        ELSE d - 366 + 1

HourOfDay(h) == h % 24

\* ------------------------------------------------------------------ inputs
TimeChoices ==
    { <<0, 6>>,                 \* 2024-01-01T00, T06
      <<8754, 8760, 8766>>,     \* ..., 2024-12-31T00, T06 (day 366)
      <<0, 12>>, <<6, 6>>, <<6, 0>>, <<6>> }

LatChoices ==
    { <<90, 0, -90>>, <<90, 0, 45, -90>>,
      <<-90, 0, 90>>, <<90, 0>>, <<45, -90>>, <<90>>, << >> }

ChannelOf(lat) == IF Len(lat) = 3 THEN <<"z500", "t850">> ELSE <<"z500">>

Inputs ==
    { [time |-> t, lat |-> l, lon |-> <<0, 180>>, channel |-> ChannelOf(l)] :
          t \in TimeChoices, l \in LatChoices }

GridOf(in) == <<Len(in.channel), Len(in.lat), Len(in.lon)>>

\* A session: the input names it declares and the grid of what it returns.
NameChoices == { {"input"}, {"input", "step", "hour", "doy"} }

ShortSessions(in) ==
    { [input_names |-> n, grid |-> g] :
          n \in NameChoices,
          g \in { GridOf(in), <<Len(in.channel) + 1, Len(in.lat), Len(in.lon)>> } }

InterpSessions(in) ==
    { [input_names |-> {"input"}, grid |-> g] :
          g \in { GridOf(in), <<Len(in.channel), Len(in.lat), Len(in.lon) + 1>> } }

\* The dict models built by the driver: a key for each model file that exists.
ModelChoices(in) ==
    { [k \in {} |-> 0] }
    \cup { [k \in {"short"} |-> s] : s \in ShortSessions(in) }
    \cup { [k \in {"interp"} |-> r] : r \in InterpSessions(in) }
    \cup { [k \in {"short", "interp"} |-> IF k = "short" THEN s ELSE r] :
               s \in ShortSessions(in), r \in InterpSessions(in) }

NoTensor == [slices |-> << >>, grid |-> <<0, 0, 0>>]

\* input.values[None]
InputBatch(in) ==
    [slices |-> [i \in 1..Len(in.time) |-> <<"in", 0, i>>], grid |-> GridOf(in)]

\* ---------------------------------------------------------- run_inference
\* (variant: the interval only bounded from below)
TimeOkAtLeast(time) == time[Len(time)] - time[Len(time) - 1] >= BaseInterval

\* assert init_time - hist_time == pd.Timedelta(hours=6)
TimeOk(time) == time[Len(time)] - time[Len(time) - 1] = BaseInterval

\* (variant: only the first latitude examined)
LatOkFirstOnly(lat) == lat[1] = 90

\* assert lat[0] == 90 and lat[-1] == -90
LatOk(lat) == lat[1] = 90 /\ lat[Len(lat)] = -90

\* (variant: the exception is caught and the loop goes on)
RaiseAndContinue(e) == [pc |-> "loop", err |-> e]

\* An exception leaves run_inference and the program: nothing catches it.
Raise(e) == [pc |-> "failed", err |-> e]

\* (variant: lead time counted from the step index itself)
LeadTimeFromZero(k) == k * BaseInterval

\* lead_time = (step + 1) * 6
LeadTime(k) == (k + 1) * BaseInterval

InitTime(in) == Last(in.time)

ValidTime(k) == InitTime(input) + k * BaseInterval

\* The scalar features the short session declares, as fractions <<num, den>>.
Scalars(names, k) ==
    [n \in names \cap {"step", "hour", "doy"} |->
        IF n = "step" THEN <<k, 1>>
        ELSE IF n = "hour" THEN <<HourOfDay(ValidTime(k)), Hours24>>
        ELSE <<Min(Doy365, DayOfYear(ValidTime(k))), Doy365>>]

\* What a session returns at step k when it returns n slices.
SessionOut(name, k, n) ==
    [slices |-> [i \in 1..n |-> <<name, k, i>>], grid |-> models[name].grid]

\* (variant: new_input[:, -2:-1], the penultimate slice)
NominalPenultimate(new_input) ==
    [new_input EXCEPT !.slices =
        IF Len(new_input.slices) < 2 THEN << >>
        ELSE << new_input.slices[Len(new_input.slices) - 1] >>]

\* output = new_input[:, -1:]
NominalOutput(new_input) ==
    [new_input EXCEPT !.slices =
        IF Len(new_input.slices) = 0 THEN << >> ELSE << Last(new_input.slices) >>]

\* (variant: batch = output)
NextBatchOutput(new_input, output) == output

\* batch = new_input
NextBatch(new_input, output) == new_input

\* ----------------------------------------------------------------- save_like
\* if save_dir:
ShouldSave(dir) == dir

\* (variant: the + 1 forgotten)
LeadTimesNoShift(output, lead_time) ==
    [i \in 1..Len(output.slices) |-> lead_time - Len(output.slices) + i - 1]

\* lead_times = np.arange(lead_time - output.shape[1], lead_time) + 1
LeadTimes(output, lead_time) ==
    [i \in 1..Len(output.slices) |-> lead_time - Len(output.slices) + i]

\* (variant: the latitudes flipped)
CoordsFlipped(in) ==
    [channel |-> in.channel,
     lat |-> [i \in 1..Len(in.lat) |-> in.lat[Len(in.lat) + 1 - i]],
     lon |-> in.lon]

\* the coordinates save_like takes from the input window
CoordsOf(in) == [channel |-> in.channel, lat |-> in.lat, lon |-> in.lon]

\* xr.DataArray(...) raises unless the data's axes have the coordinates' lengths
ShapeOk(output, in) == output.grid = GridOf(in)

\* the DataArray written to f'{lead_time:03d}.nc'
MakeRecord(output, in, lead_time) ==
    [name      |-> lead_time,
     time      |-> << InitTime(in) >>,
     lead_time |-> LeadTimes(output, lead_time),
     channel   |-> CoordsOf(in).channel,
     lat       |-> CoordsOf(in).lat,
     lon       |-> CoordsOf(in).lon,
     data      |-> output.slices]

\* ------------------------------------------------------------------ actions
TEIdle ==
    /\ te_pc = "idle" /\ te_init = 0 /\ te_total = 0 /\ te_freq = 0
    /\ te_i = 0 /\ tembs = << >>

Init ==
    /\ input \in Inputs
    /\ models \in ModelChoices(input)
    /\ total_step \in 0..MaxSteps
    /\ use_interp \in BOOLEAN
    /\ save_dir \in BOOLEAN
    /\ pc = "start"
    /\ err = "none"
    /\ step = 0
    /\ batch = NoTensor
    /\ predIn = << >> /\ predOut = << >>
    /\ refIn = << >> /\ refOut = << >>
    /\ saveCalls = << >> /\ records = << >>
    /\ TEIdle

Fail(e) ==
    /\ pc' = Raise(e).pc
    /\ err' = Raise(e).err

\* run_inference up to the loop: the two assertions and the first window.
Precheck ==
    /\ pc = "start"
    /\ IF Len(input.time) < 2 THEN Fail("IndexError") /\ UNCHANGED batch
       ELSE IF ~TimeOk(input.time) THEN Fail("AssertionError") /\ UNCHANGED batch
       ELSE IF Len(input.lat) = 0 THEN Fail("IndexError") /\ UNCHANGED batch
       ELSE IF ~LatOk(input.lat) THEN Fail("AssertionError") /\ UNCHANGED batch
       ELSE /\ pc' = "loop"
            /\ err' = err
            /\ batch' = InputBatch(input)
    /\ UNCHANGED <<input, models, total_step, use_interp, save_dir, step,
                   predIn, predOut, refIn, refOut, saveCalls, records>>
    /\ UNCHANGED teVars

InLoop == pc = "loop" /\ step < total_step

\* the dict inputs of a step
StepInputs(k) ==
    [input |-> batch, scalars |-> Scalars(models["short"].input_names, k)]

\* model = models["short"] raises KeyError: short.onnx was not there.
StepNoShort ==
    /\ InLoop
    /\ "short" \notin DOMAIN models
    /\ Fail("KeyError")
    /\ UNCHANGED <<input, models, total_step, use_interp, save_dir, step, batch,
                   predIn, predOut, refIn, refOut, saveCalls, records>>
    /\ UNCHANGED teVars

\* model.run raises.
StepPredictorFails ==
    /\ InLoop
    /\ "short" \in DOMAIN models
    /\ predIn' = Append(predIn, StepInputs(step))
    /\ Fail("PredictorError")
    /\ UNCHANGED <<input, models, total_step, use_interp, save_dir, step, batch,
                   predOut, refIn, refOut, saveCalls, records>>
    /\ UNCHANGED teVars

\* models["interp"] raises KeyError: interp.onnx was not there.
StepNoInterp ==
    /\ InLoop
    /\ "short" \in DOMAIN models
    /\ use_interp
    /\ "interp" \notin DOMAIN models
    /\ \E n \in 0..MaxHist :
          /\ predIn' = Append(predIn, StepInputs(step))
          /\ predOut' = Append(predOut, SessionOut("short", step, n))
    /\ Fail("KeyError")
    /\ UNCHANGED <<input, models, total_step, use_interp, save_dir, step, batch,
                   refIn, refOut, saveCalls, records>>
    /\ UNCHANGED teVars

\* models["interp"].run raises.
StepRefinerFails ==
    /\ InLoop
    /\ "short" \in DOMAIN models
    /\ use_interp
    /\ "interp" \in DOMAIN models
    /\ \E n \in 0..MaxHist :
          LET new_input == SessionOut("short", step, n)
          IN  /\ predIn' = Append(predIn, StepInputs(step))
              /\ predOut' = Append(predOut, new_input)
              /\ refIn' = Append(refIn, [StepInputs(step) EXCEPT !.input = new_input])
    /\ Fail("RefinerError")
    /\ UNCHANGED <<input, models, total_step, use_interp, save_dir, step, batch,
                   refOut, saveCalls, records>>
    /\ UNCHANGED teVars

\* The calls of a step whose sessions both return: n and m slices.
StepCalls(n, m) ==
    LET new_input == SessionOut("short", step, n)
        refined   == SessionOut("interp", step, m)
    IN  /\ predIn' = Append(predIn, StepInputs(step))
        /\ predOut' = Append(predOut, new_input)
        /\ IF use_interp
           THEN /\ refIn' = Append(refIn, [StepInputs(step) EXCEPT !.input = new_input])
                /\ refOut' = Append(refOut, refined)
           ELSE UNCHANGED <<refIn, refOut>>

\* The output of the step: the refined one with --use_interp, else the nominal.
StepOutput(n, m) ==
    IF use_interp THEN SessionOut("interp", step, m)
    ELSE NominalOutput(SessionOut("short", step, n))

CanCall ==
    /\ InLoop
    /\ "short" \in DOMAIN models
    /\ use_interp => "interp" \in DOMAIN models

RefinedLens == IF use_interp THEN 0..MaxHist ELSE {0}

\* save_like raises: xr.DataArray rejects the shape, or the write fails.
StepSaveFails ==
    /\ CanCall
    /\ ShouldSave(save_dir)
    /\ \E n \in 0..MaxHist, m \in RefinedLens :
          /\ StepCalls(n, m)
          /\ saveCalls' = Append(saveCalls,
                 [output |-> StepOutput(n, m), lead_time |-> LeadTime(step)])
          /\ IF ShapeOk(StepOutput(n, m), input)
             THEN Fail("OSError")
             ELSE Fail("ValueError")
    /\ UNCHANGED <<input, models, total_step, use_interp, save_dir, step, batch,
                   records>>
    /\ UNCHANGED teVars

\* A whole iteration: predict, refine, label and save, advance the window.
StepCompletes ==
    /\ CanCall
    /\ \E n \in 0..MaxHist, m \in RefinedLens :
          LET new_input == SessionOut("short", step, n)
              output    == StepOutput(n, m)
          IN  /\ ShouldSave(save_dir) => ShapeOk(output, input)
              /\ StepCalls(n, m)
              /\ saveCalls' = Append(saveCalls,
                     [output |-> output, lead_time |-> LeadTime(step)])
              /\ records' = IF ShouldSave(save_dir)
                            THEN Append(records, MakeRecord(output, input, LeadTime(step)))
                            ELSE records
              /\ batch' = NextBatch(new_input, output)
    /\ step' = step + 1
    /\ UNCHANGED <<input, models, total_step, use_interp, save_dir, pc, err>>
    /\ UNCHANGED teVars

\* range(total_step) is exhausted: run_inference returns.
Finish ==
    /\ pc = "loop"
    /\ step >= total_step
    /\ pc' = "done"
    /\ UNCHANGED <<input, models, total_step, use_interp, save_dir, err, step,
                   batch, predIn, predOut, refIn, refOut, saveCalls, records>>
    /\ UNCHANGED teVars

Next ==
    \/ Precheck
    \/ StepNoShort
    \/ StepPredictorFails
    \/ StepNoInterp
    \/ StepRefinerFails
    \/ StepSaveFails
    \/ StepCompletes
    \/ Finish

Spec == Init /\ [][Next]_vars

\* ==================================================================== claims
\* The loop has not been entered: no session was called, nothing was saved.
NotStarted ==
    /\ pc \in {"start", "failed"}
    /\ step = 0
    /\ predIn = << >> /\ refIn = << >>
    /\ saveCalls = << >> /\ records = << >>

\* The record of step k-1 is the k-th record and carries lead time 6k: it is
\* saved under that lead time and its last lead_time label, if any, is 6k.
CarriesLeadTime(r, k) ==
    /\ r.name = 6 * k
    /\ Len(r.lead_time) > 0 => r.lead_time[Len(r.lead_time)] = 6 * k

\* C1 (as claimed): a run that returns has emitted exactly total_step records,
\* the k-th (1-based) carrying lead time 6k.
C1_Original ==
    pc = "done" =>
        /\ Len(records) = total_step
        /\ \A k \in 1..Len(records) : CarriesLeadTime(records[k], k)

\* C1 (amended): a run that returns has called save_like total_step times, the
\* k-th call (1-based) with lead time 6k; with a non-empty save_dir it has
\* emitted exactly total_step records, in step order, the k-th carrying lead
\* time 6k; with an empty save_dir no record is ever emitted.
C1_RecordsPerStep ==
    /\ pc = "done" => Len(saveCalls) = total_step
    /\ \A k \in 1..Len(saveCalls) : saveCalls[k].lead_time = 6 * k
    /\ save_dir =>
          /\ pc = "done" => Len(records) = total_step
          /\ pc = "loop" => Len(records) = step
          /\ \A k \in 1..Len(records) : CarriesLeadTime(records[k], k)
    /\ ~save_dir => records = << >>

C1_Witness ==
    /\ pc = "done" /\ save_dir /\ total_step >= 2
    /\ Len(records) = total_step
    /\ records[2].name = 12

\* no slice of tensor t was produced by the "interp" session
NoRefinedSlice(t) == \A i \in 1..Len(t.slices) : t.slices[i][1] # "interp"

\* C2: with --use_interp the window of each later Predictor call is the whole
\* raw output of the call before it, and no slice the Refiner produced is in
\* the rolling window or in any Predictor input.
C2_RawFeedback ==
    use_interp =>
        /\ \A k \in 1..(Len(predIn) - 1) : predIn[k + 1].input = predOut[k]
        /\ \A k \in 1..Len(predIn) : NoRefinedSlice(predIn[k].input)
        /\ NoRefinedSlice(batch)

C2_Witness ==
    /\ use_interp
    /\ Len(predIn) >= 2
    /\ Len(refOut) >= 1 /\ Len(refOut[1].slices) >= 1
    /\ Len(predOut[1].slices) >= 2

\* strictly decreasing from +90 to -90
NorthToSouth(lat) ==
    /\ Len(lat) >= 1
    /\ lat[1] = 90 /\ lat[Len(lat)] = -90
    /\ \A i \in 1..(Len(lat) - 1) : lat[i] > lat[i + 1]

\* C3 (as claimed): a window whose latitudes are not strictly monotonic from
\* +90 to -90 never gets into the loop.
C3_Original == ~NorthToSouth(input.lat) => NotStarted

\* C3 (amended): a window whose first latitude is not 90 or whose last
\* latitude is not -90 (or that has no latitude) never gets into the loop.
C3_EndpointsChecked ==
    (Len(input.lat) = 0 \/ input.lat[1] # 90 \/ input.lat[Len(input.lat)] # -90)
        => NotStarted

C3_Witness ==
    /\ pc = "failed" /\ err = "AssertionError"
    /\ input.time = <<0, 6>>
    /\ input.lat = <<90, 0>>

\* C4: a window whose last two timestamps are not exactly 6 hours apart never
\* gets into the loop.
C4_IntervalChecked ==
    (Len(input.time) >= 2
     /\ input.time[Len(input.time)] - input.time[Len(input.time) - 1] # 6)
        => NotStarted

C4_Witness ==
    /\ pc = "failed" /\ err = "AssertionError"
    /\ input.time = <<0, 12>>
    /\ input.lat = <<90, 0, -90>>

\* C5 (as claimed): with --use_interp and no "interp" session loaded, the
\* Predictor is never called and no record is emitted.
C5_FailsAtSetup ==
    (use_interp /\ "interp" \notin DOMAIN models) =>
        /\ predIn = << >>
        /\ records = << >>

\* C6: every emitted record has the channel, latitude and longitude
\* coordinates of the input window.
C6_CoordsUnchanged ==
    \A i \in 1..Len(records) :
        /\ records[i].channel = input.channel
        /\ records[i].lat = input.lat
        /\ records[i].lon = input.lon

C6_Witness ==
    /\ Len(records) >= 2
    /\ use_interp
    /\ input.lat = <<90, 0, -90>>

\* the exceptions of a step's collaborators: model.run and save_like
StepErrors == {"PredictorError", "RefinerError", "OSError", "ValueError"}

\* C8: once the Predictor call, the Refiner call or the save of step k has
\* failed the run is over: each of the steps 0..k called the Predictor once
\* and no later step did, the records are those of the steps 0..k-1, and the
\* window is the one step k started with.
C8_AbortOnFailure ==
    err \in StepErrors =>
        /\ pc = "failed"
        /\ Len(predIn) = step + 1
        /\ Len(predOut) = IF err = "PredictorError" THEN step ELSE step + 1
        /\ Len(refIn) = IF ~use_interp THEN 0
                        ELSE IF err = "PredictorError" THEN step ELSE step + 1
        /\ Len(refOut) = IF ~use_interp THEN 0
                         ELSE IF err \in {"PredictorError", "RefinerError"} THEN step
                         ELSE step + 1
        /\ Len(records) = IF save_dir THEN step ELSE 0
        /\ \A k \in 1..Len(records) : records[k].name = 6 * k
        /\ batch = IF step = 0 THEN InputBatch(input) ELSE predOut[step]
        /\ predIn[step + 1].input = batch

C8_Witness ==
    /\ err = "RefinerError"
    /\ step >= 1
    /\ Len(records) = step

\* C9 (as claimed): without --use_interp the slice handed to save_like is the
\* penultimate slice of the Predictor's raw output of that step.
C9_Original ==
    ~use_interp =>
        \A i \in 1..Len(saveCalls) :
            Len(predOut[i].slices) >= 2 =>
                saveCalls[i].output.slices =
                    << predOut[i].slices[Len(predOut[i].slices) - 1] >>

\* C9 (amended): without --use_interp the slice handed to save_like is the
\* last slice of the Predictor's raw output of that step (nothing when the
\* raw output has no slice).
C9_TrailingSlice ==
    ~use_interp =>
        \A i \in 1..Len(saveCalls) :
            /\ saveCalls[i].output.grid = predOut[i].grid
            /\ saveCalls[i].output.slices =
                   IF Len(predOut[i].slices) = 0 THEN << >>
                   ELSE << predOut[i].slices[Len(predOut[i].slices)] >>

C9_Witness ==
    /\ ~use_interp
    /\ Len(saveCalls) >= 1
    /\ Len(predOut[1].slices) >= 2
    /\ saveCalls[1].output.slices = << <<"short", 0, 2>> >>

\* C10 (as claimed): every record carries one lead-time label, (step+1)*6.
C10_Original ==
    \A i \in 1..Len(records) : records[i].lead_time = << 6 * i >>

\* C10 (amended): every record carries one lead-time label per slice of its
\* data, the consecutive integers that end at (step+1)*6; a record of one
\* slice carries the single label (step+1)*6.
C10_LeadTimeLabels ==
    \A i \in 1..Len(records) :
        LET r == records[i]
            n == Len(r.data)
        IN  /\ Len(r.lead_time) = n
            /\ \A j \in 1..n : r.lead_time[j] = 6 * i - n + j
            /\ n = 1 => r.lead_time = << 6 * i >>

C10_Witness ==
    /\ Len(records) >= 2
    /\ Len(records[2].data) = 2
    /\ records[2].lead_time = <<11, 12>>

\* ------------------------------------------------------------ time_encoding
\* Symbolic float32 values: a phase fraction is <<num, den>>, its sine is
\* <<"sin", <<num, den>>>>, its cosine <<"cos", <<num, den>>>>.
TEAnchors == { 0, 30, 360, 1080, 1439, 86400, 525600, 526680, 526859, 527039, 527040, 527400 }

TEFreqs == { 1, BaseInterval }

\* [i-1, i, i+1]
Offsets(i) == << i - 1, i, i + 1 >>

\* times = init_time[:, None] + hours[None], reshaped to one axis (minutes)
TETimes(init, i, freq) == [j \in 1..3 |-> init + Offsets(i)[j] * freq * 60]

\* pd.Period(t, 'H'): the hour that holds t
PeriodH(t) == t \div 60

\* [(p.day_of_year/366, p.hour/24) for p in times]: an array of shape (3, 2)
Phases(init, i, freq) ==
    [j \in 1..3 |->
        << << DayOfYear(PeriodH(TETimes(init, i, freq)[j])), Doy366 >>,
           << HourOfDay(PeriodH(TETimes(init, i, freq)[j])), Hours24 >> >>]

\* np.sin, np.cos: elementwise
NpSin(a) == [r \in 1..Len(a) |-> [c \in 1..Len(a[r]) |-> <<"sin", a[r][c]>>]]

NpCos(a) == [r \in 1..Len(a) |-> [c \in 1..Len(a[r]) |-> <<"cos", a[r][c]>>]]

\* (variant: np.concatenate([a, b], axis=0))
ConcatAxis0(a, b) == a \o b

\* np.concatenate([a, b], axis=-1)
ConcatLast(a, b) == [r \in 1..Len(a) |-> a[r] \o b[r]]

\* a.reshape(1, -1): one row holding the rows of a, in order
RECURSIVE FlatRows(_)
FlatRows(a) == IF Len(a) = 0 THEN << >> ELSE Head(a) \o FlatRows(Tail(a))

Reshape1(a) == << FlatRows(a) >>

\* the body of the loop: temb of step i
Temb(init, i, freq) ==
    Reshape1(ConcatLast(NpSin(Phases(init, i, freq)), NpCos(Phases(init, i, freq))))

RunIdle ==
    /\ input = [time |-> << >>, lat |-> << >>, lon |-> << >>, channel |-> << >>]
    /\ models = [k \in {} |-> 0]
    /\ total_step = 0 /\ use_interp = FALSE /\ save_dir = FALSE
    /\ pc = "idle" /\ err = "none" /\ step = 0 /\ batch = NoTensor
    /\ predIn = << >> /\ predOut = << >> /\ refIn = << >> /\ refOut = << >>
    /\ saveCalls = << >> /\ records = << >>

InitTE ==
    /\ RunIdle
    /\ te_pc = "loop"
    /\ te_init \in TEAnchors
    /\ te_total \in 0..(MaxSteps + 1)
    /\ te_freq \in TEFreqs
    /\ te_i = 0
    /\ tembs = << >>

\* for i in range(total_step): ... tembs.append(temb)
TEStep ==
    /\ te_pc = "loop"
    /\ te_i < te_total
    /\ tembs' = Append(tembs, Temb(te_init, te_i, te_freq))
    /\ te_i' = te_i + 1
    /\ UNCHANGED <<te_pc, te_init, te_total, te_freq>>
    /\ UNCHANGED runVars

\* return np.stack(tembs): np.stack raises on an empty list
TEReturn ==
    /\ te_pc = "loop"
    /\ te_i >= te_total
    /\ te_pc' = IF tembs = << >> THEN "failed" ELSE "returned"
    /\ UNCHANGED <<te_init, te_total, te_freq, te_i, tembs>>
    /\ UNCHANGED runVars

NextTE ==
    \/ TEStep
    \/ TEReturn

SpecTE == InitTE /\ [][NextTE]_vars

\* ------------------------------------------------------ claims, time_encoding
\* C7 (as claimed): the embedding of a step has 18 components.
C7_Original ==
    \A k \in 1..Len(tembs) : Len(tembs[k][1]) = 18

\* C7 (amended): the embedding of step i is one row of 12 components: for each
\* of the offsets i-1, i, i+1, in this order, the four scalars sin(d), sin(h),
\* cos(d), cos(h) with d = day_of_year/366 and h = hour/24 of the offset's hour.
C7_TwelveComponents ==
    \A k \in 1..Len(tembs) :
        /\ Len(tembs[k]) = 1
        /\ Len(tembs[k][1]) = 12
        /\ \A o \in 1..3 :
              LET t == (te_init + ((k - 1) + (o - 2)) * te_freq * 60) \div 60
                  d == << DayOfYear(t), 366 >>
                  h == << HourOfDay(t), 24 >>
                  row == tembs[k][1]
              IN  /\ row[4 * (o - 1) + 1] = <<"sin", d>>
                  /\ row[4 * (o - 1) + 2] = <<"sin", h>>
                  /\ row[4 * (o - 1) + 3] = <<"cos", d>>
                  /\ row[4 * (o - 1) + 4] = <<"cos", h>>

C7_Witness ==
    /\ te_pc = "returned"
    /\ Len(tembs) >= 2
    /\ te_init = 527039
    /\ tembs[1][1][1] = <<"sin", <<366, 366>>>>

====
